---- MODULE Spec2Model ----
(***************************************************************************)
(* Quiz Evaluation Engine of math-type: src/src/utils/evaluation.ts, its   *)
(* step-grading adapter src/src/utils/supabase-edge.ts and the             *)
(* evaluate-steps edge function.                                           *)
(*                                                                         *)
(* Strings are sequences of one-character strings.  JavaScript Numbers are *)
(* IEEE-754 doubles: the marks and percentage arithmetic is modelled on    *)
(* 53-bit significands held in 15-bit limbs, so that the rounding of every *)
(* intermediate quotient and product is the one the engine performs.       *)
(***************************************************************************)
EXTENDS Integers, Sequences, FiniteSets, TLC

(***************************************************************************)
(* IEEE-754 double arithmetic on non-negative values.                      *)
(* A double is [m |-> significand, e |-> exponent], value m * 2^e, with m  *)
(* a little-endian tuple of NLimbs limbs of LimbBits bits, m <= 2^53.      *)
(***************************************************************************)
LimbBits == 15
Base == 32768
NLimbs == 8
SigBits == 53

Limb(x, i) == IF i >= 1 /\ i <= Len(x) THEN x[i] ELSE 0

BigZero == [k \in 1..NLimbs |-> 0]

BigFromInt(n) == [k \in 1..NLimbs |-> IF k = 1 THEN n % Base
                                     ELSE IF k = 2 THEN n \div Base
                                     ELSE 0]

BigToInt(x) == x[1] + x[2] * Base

BitLenSmall(v) == CHOOSE n \in 0..LimbBits : (v < 2^n) /\ (n = 0 \/ v >= 2^(n-1))

BitLen(x) ==
    IF \A k \in 1..NLimbs : x[k] = 0 THEN 0
    ELSE LET top == CHOOSE k \in 1..NLimbs :
                        x[k] # 0 /\ \A j \in (k+1)..NLimbs : x[j] = 0
         IN (top - 1) * LimbBits + BitLenSmall(x[top])

Bit(x, i) == IF i < 0 THEN 0
             ELSE (Limb(x, (i \div LimbBits) + 1) \div 2^(i % LimbBits)) % 2

\* some bit below position n is set
LowBitsSet(x, n) ==
    \/ \E k \in 1..(n \div LimbBits) : Limb(x, k) # 0
    \/ Limb(x, (n \div LimbBits) + 1) % 2^(n % LimbBits) # 0

ShiftRight(x, s) ==
    LET d == s \div LimbBits
        r == s % LimbBits
    IN [k \in 1..NLimbs |->
          (Limb(x, k + d) \div 2^r) + (Limb(x, k + d + 1) % 2^r) * 2^(LimbBits - r)]

BigInc(x) == [k \in 1..NLimbs |->
                IF \A j \in 1..(k-1) : x[j] = Base - 1
                THEN (x[k] + 1) % Base ELSE x[k]]

RECURSIVE CarryFrom(_, _, _)
CarryFrom(c, k, carry) ==
    IF k > NLimbs THEN <<>>
    ELSE LET v == c[k] + carry
         IN <<v % Base>> \o CarryFrom(c, k + 1, v \div Base)

\* product of two significands of at most 4 limbs each
BigMul(x, y) ==
    LET T(i, j) == IF i >= 1 /\ i <= 4 /\ j >= 1 /\ j <= 4 THEN x[i] * y[j] ELSE 0
        Col(k) == (T(1, k) % Base) + (T(2, k-1) % Base)
                  + (T(3, k-2) % Base) + (T(4, k-3) % Base)
                  + (T(1, k-1) \div Base) + (T(2, k-2) \div Base)
                  + (T(3, k-3) \div Base) + (T(4, k-4) \div Base)
    IN CarryFrom([k \in 1..NLimbs |-> Col(k)], 1, 0)

\* round-to-nearest, ties-to-even, of x * 2^e (plus a sticky remainder) to 53 bits
RoundNearestEven(x, e, sticky) ==
    LET len == BitLen(x)
    IN IF len <= SigBits THEN [m |-> x, e |-> e]
       ELSE LET s == len - SigBits
                q == ShiftRight(x, s)
                half == Bit(x, s - 1) = 1
                rest == sticky \/ LowBitsSet(x, s - 1)
                up == half /\ (rest \/ Bit(q, 0) = 1)
            IN [m |-> IF up THEN BigInc(q) ELSE q, e |-> e + s]

\* a / b for integers 0 <= a, 0 < b < 2^15: five limbs of quotient, then rounding
FDiv(a, b) ==
    LET r0 == a % b
        r1 == (r0 * Base) % b
        r2 == (r1 * Base) % b
        r3 == (r2 * Base) % b
        r4 == (r3 * Base) % b
        r5 == (r4 * Base) % b
        q == <<(r4 * Base) \div b, (r3 * Base) \div b, (r2 * Base) \div b,
               (r1 * Base) \div b, (r0 * Base) \div b, a \div b, 0, 0>>
    IN RoundNearestEven(q, 0 - 5 * LimbBits, r5 # 0)

FMul(x, y) == RoundNearestEven(BigMul(x.m, y.m), x.e + y.e, FALSE)

FFromInt(n) == [m |-> BigFromInt(n), e |-> 0]

\* the double nearest to 0.7: 0x1.6666666666666p-1
StepWeight == [m |-> <<26214, 19660, 6553, 179, 0, 0, 0, 0>>, e |-> 0 - 53]

\* Math.round of a non-negative double below 2^30: nearest integer, halves up
MathRound(x) ==
    IF x.e >= 0 THEN BigToInt(x.m) * 2^(x.e)
    ELSE LET s == 0 - x.e
         IN BigToInt(ShiftRight(x.m, s)) + Bit(x.m, s - 1)

(***************************************************************************)
(* Strings: tuples of one-character strings.                               *)
(***************************************************************************)
BS == "\\"

IsSpace(c) == c = " "

Uppers == <<"A","B","C","D","E","F","G","H","I","J","K","L","M",
            "N","O","P","Q","R","S","T","U","V","W","X","Y","Z">>
Lowers == <<"a","b","c","d","e","f","g","h","i","j","k","l","m",
            "n","o","p","q","r","s","t","u","v","w","x","y","z">>

LowerChar(c) == IF \E i \in 1..26 : Uppers[i] = c
                THEN Lowers[CHOOSE i \in 1..26 : Uppers[i] = c]
                ELSE c

toLowerCase(s) == [i \in 1..Len(s) |-> LowerChar(s[i])]

\* pat occurs in s at position i
MatchAt(s, pat, i) ==
    /\ i + Len(pat) - 1 <= Len(s)
    /\ \A k \in 1..Len(pat) : s[i + k - 1] = pat[k]

\* String.prototype.replace with a global literal pattern
RECURSIVE ReplaceFrom(_, _, _, _)
ReplaceFrom(s, pat, rep, i) ==
    IF i > Len(s) THEN <<>>
    ELSE IF MatchAt(s, pat, i) THEN rep \o ReplaceFrom(s, pat, rep, i + Len(pat))
    ELSE <<s[i]>> \o ReplaceFrom(s, pat, rep, i + 1)

ReplaceAll(s, pat, rep) == ReplaceFrom(s, pat, rep, 1)

\* replace(/\s+/g, '')
StripWhitespace(s) == SelectSeq(s, LAMBDA c : ~IsSpace(c))

\* replace(/\s+/g, ' ')
CollapseWhitespace(s) ==
    LET Keep(i) == ~IsSpace(s[i]) \/ i = 1 \/ ~IsSpace(s[i-1])
        F[i \in 0..Len(s)] ==
            IF i = 0 THEN <<>>
            ELSE IF Keep(i) THEN Append(F[i-1], s[i]) ELSE F[i-1]
    IN F[Len(s)]

trim(s) ==
    IF \A i \in 1..Len(s) : IsSpace(s[i]) THEN <<>>
    ELSE LET a == CHOOSE i \in 1..Len(s) :
                      ~IsSpace(s[i]) /\ \A j \in 1..(i-1) : IsSpace(s[j])
             b == CHOOSE i \in 1..Len(s) :
                      ~IsSpace(s[i]) /\ \A j \in (i+1)..Len(s) : IsSpace(s[j])
         IN SubSeq(s, a, b)

(***************************************************************************)
(* Expression normalizer and comparator.                                   *)
(***************************************************************************)
normalizeMathExpression(latex) ==
    IF latex = <<>> THEN <<>>
    ELSE LET n0 == StripWhitespace(latex)
             n1 == ReplaceAll(n0, <<BS,"t","i","m","e","s">>, <<"*">>)
             n2 == ReplaceAll(n1, <<BS,"c","d","o","t">>, <<"*">>)
             n3 == ReplaceAll(n2, <<BS,"d","i","v">>, <<"/">>)
             n4 == ReplaceAll(n3, <<BS,"s","i","n">>, <<"s","i","n">>)
             n5 == ReplaceAll(n4, <<BS,"c","o","s">>, <<"c","o","s">>)
             n6 == ReplaceAll(n5, <<BS,"t","a","n">>, <<"t","a","n">>)
             n7 == ReplaceAll(n6, <<BS,"p","i">>, <<"p","i">>)
             n8 == ReplaceAll(n7, <<BS,"t","h","e","t","a">>, <<"t","h","e","t","a">>)
             n9 == ReplaceAll(n8, <<BS,"l","e","f","t","(">>, <<"(">>)
             n10 == ReplaceAll(n9, <<BS,"r","i","g","h","t",")">>, <<")">>)
         IN toLowerCase(n10)

\* length of the separator /\s+(?:or|and)\s+/i matched at i of a
\* whitespace-collapsed string, 0 when it does not match there
SeparatorAt(s, i) ==
    IF MatchAt(toLowerCase(s), <<" ","o","r"," ">>, i) THEN 4
    ELSE IF MatchAt(toLowerCase(s), <<" ","a","n","d"," ">>, i) THEN 5
    ELSE 0

\* String.prototype.split(/\s+(?:or|and)\s+/i)
RECURSIVE SplitOrAnd(_)
SplitOrAnd(s) ==
    IF \A i \in 1..Len(s) : SeparatorAt(s, i) = 0 THEN <<s>>
    ELSE LET i == CHOOSE k \in 1..Len(s) :
                      SeparatorAt(s, k) > 0 /\ \A j \in 1..(k-1) : SeparatorAt(s, j) = 0
         IN <<SubSeq(s, 1, i - 1)>>
            \o SplitOrAnd(SubSeq(s, i + SeparatorAt(s, i), Len(s)))

\* number of whitespace characters of s from position i on
RECURSIVE SpacesFrom(_, _)
SpacesFrom(s, i) ==
    IF i <= Len(s) /\ IsSpace(s[i]) THEN 1 + SpacesFrom(s, i + 1) ELSE 0

\* where the group of /=\s*([^,]+ begins when '=' is at p, 0 if no match at p:
\* \s* is greedy and gives one character back when a comma or the end follows
GroupStart(s, p) ==
    LET n == SpacesFrom(s, p + 1)
        nxt == p + n + 1
    IN IF nxt <= Len(s) /\ s[nxt] # "," THEN nxt
       ELSE IF n >= 1 THEN p + n
       ELSE 0

\* the leftmost '=' at which the pattern matches, 0 if none
EqualsMatch(s) ==
    LET Ok(p) == s[p] = "=" /\ GroupStart(s, p) > 0
    IN IF \E p \in 1..Len(s) : Ok(p)
       THEN CHOOSE p \in 1..Len(s) : Ok(p) /\ \A j \in 1..(p-1) : ~Ok(j)
       ELSE 0

\* end of [^,]+ begun at g: up to the next comma
NextComma(s, g) ==
    IF \E j \in g..Len(s) : s[j] = ","
    THEN CHOOSE j \in g..Len(s) : s[j] = "," /\ \A k \in g..(j-1) : s[k] # ","
    ELSE Len(s) + 1

\* end of [^,]+(?:,\s*[^,]+)* begun at g: up to the first comma that is
\* followed by a comma or by the end
ListEnd(s, g) ==
    LET Stop(j) == s[j] = "," /\ (j = Len(s) \/ s[j+1] = ",")
    IN IF \E j \in g..Len(s) : Stop(j)
       THEN CHOOSE j \in g..Len(s) : Stop(j) /\ \A k \in g..(j-1) : ~Stop(k)
       ELSE Len(s) + 1

\* String.prototype.split(',')
RECURSIVE SplitComma(_)
SplitComma(s) ==
    LET j == NextComma(s, 1)
    IN IF j > Len(s) THEN <<s>>
       ELSE <<SubSeq(s, 1, j - 1)>> \o SplitComma(SubSeq(s, j + 1, Len(s)))

PartValue(part) ==
    LET p == EqualsMatch(part)
    IN IF p > 0
       THEN LET g == GroupStart(part, p)
            IN trim(SubSeq(part, g, NextComma(part, g) - 1))
       ELSE trim(part)

\* lines 68-75: the values after the '=' matched at p, p = 0 when the
\* pattern does not match
EquationValues(cleaned, p) ==
    IF p > 0
    THEN LET g == GroupStart(cleaned, p)
             vals == SplitComma(SubSeq(cleaned, g, ListEnd(cleaned, g) - 1))
         IN [i \in 1..Len(vals) |-> trim(vals[i])]
    ELSE <<trim(cleaned)>>

\* lines 51-75
ExtractFrom(cleaned, splitParts) ==
    IF Len(splitParts) > 1
    THEN [i \in 1..Len(splitParts) |-> PartValue(splitParts[i])]
    ELSE EquationValues(cleaned, EqualsMatch(cleaned))

\* lines 46-47
Cleaned(latex) == CollapseWhitespace(SelectSeq(latex, LAMBDA c : c # BS))

extractValueFromEquation(latex) ==
    IF latex = <<>> THEN <<>>
    ELSE ExtractFrom(Cleaned(latex), SplitOrAnd(Cleaned(latex)))

\* new Set(values.map(v => normalizeMathExpression(v)))
NormalizedSet(values) == {normalizeMathExpression(values[i]) : i \in 1..Len(values)}

\* lines 98-124: the set comparison when both lists are non-empty and the
\* sets have the same size, else the search for one common value
CompareSets(bothNonEmpty, studentSet, correctSet) ==
    IF bothNonEmpty /\ Cardinality(studentSet) = Cardinality(correctSet)
    THEN \A val \in correctSet : val \in studentSet
    ELSE \E val \in correctSet : val \in studentSet

CompareValues(studentValues, correctValues) ==
    CompareSets(Len(studentValues) > 0 /\ Len(correctValues) > 0,
                NormalizedSet(studentValues), NormalizedSet(correctValues))

compareMathExpressions(student, correct) ==
    IF student = <<>> \/ correct = <<>> THEN FALSE
    ELSE IF normalizeMathExpression(student) = normalizeMathExpression(correct) THEN TRUE
    ELSE CompareValues(extractValueFromEquation(student),
                       extractValueFromEquation(correct))

(***************************************************************************)
(* Data model (src/src/types.ts).  An optional value is a tuple of length  *)
(* 0 (undefined) or 1.  A `string | string[]` value is a record telling    *)
(* which of the two it is.  marks = 0 stands for an absent marks field:    *)
(* `question.marks || 1` treats both alike.                                *)
(***************************************************************************)
None == <<>>
Some(v) == <<v>>
IsSome(o) == Len(o) = 1
Get(o) == o[1]

One(str) == [isArray |-> FALSE, items |-> <<str>>]
Many(strs) == [isArray |-> TRUE, items |-> strs]
OneOrMany(strs) == IF Len(strs) = 1 THEN One(strs[1]) ELSE Many(strs)

Untagged == "undefined"

MaxMarksNoDefault(question) == question.marks

\* question.marks || 1
MaxMarksOf(question) == IF question.marks # 0 THEN question.marks ELSE 1

(***************************************************************************)
(* evaluateMCQ                                                             *)
(***************************************************************************)
\* mcqOptions.find(opt => opt.isCorrect): the first flagged option, if any
FindCorrectOption(options) ==
    IF \E k \in 1..Len(options) : options[k].isCorrect
    THEN Some(options[CHOOSE k \in 1..Len(options) :
                        options[k].isCorrect /\ \A j \in 1..(k-1) : ~options[j].isCorrect])
    ELSE None

evaluateMCQ(question, studentAnswer) ==
    LET maxMarks == MaxMarksOf(question)
    IN IF ~IsSome(question.mcqOptions)
       THEN [questionId |-> question.id, isCorrect |-> FALSE, status |-> "incorrect",
             studentAnswer |-> One(studentAnswer), correctAnswer |-> One(<<>>),
             finalAnswerCorrect |-> FALSE, workingSteps |-> None, aiFeedback |-> None,
             marksAwarded |-> 0, maxMarks |-> maxMarks,
             feedback |-> "Invalid question format"]
       ELSE LET correctOption == FindCorrectOption(Get(question.mcqOptions))
                isCorrect == IF IsSome(correctOption)
                             THEN studentAnswer = Get(correctOption).id ELSE FALSE
            IN [questionId |-> question.id, isCorrect |-> isCorrect,
                status |-> IF isCorrect THEN "correct" ELSE "incorrect",
                studentAnswer |-> One(studentAnswer),
                correctAnswer |-> One(IF IsSome(correctOption)
                                      THEN Get(correctOption).id ELSE <<>>),
                finalAnswerCorrect |-> isCorrect, workingSteps |-> None,
                aiFeedback |-> None,
                marksAwarded |-> IF isCorrect THEN maxMarks ELSE 0,
                maxMarks |-> maxMarks,
                feedback |-> IF isCorrect THEN "Correct!"
                             ELSE "Incorrect. Please try again."]

(***************************************************************************)
(* evaluateFillInTheBlank                                                  *)
(***************************************************************************)
\* studentAnswers[key] || ''
Lookup(answers, key) == IF key \in DOMAIN answers THEN answers[key] ELSE <<>>

\* Math.round((correctCount / totalCount) * maxMarks)
BlankMarks(correctCount, totalCount, maxMarks) ==
    MathRound(FMul(FDiv(correctCount, totalCount), FFromInt(maxMarks)))

\* lines 194-205: the number of boxes whose answer matches
CorrectBlanks(studentAnswerArray, correctAnswerArray) ==
    Cardinality({k \in 1..Len(correctAnswerArray) :
                    compareMathExpressions(studentAnswerArray[k], correctAnswerArray[k])})

BlankStatusBinary(correctCount, totalCount) ==
    IF correctCount = totalCount THEN "correct" ELSE "incorrect"

\* lines 214-227: the status of a fill-in-the-blank result
BlankStatus(correctCount, totalCount) ==
    IF correctCount = totalCount THEN "correct"
    ELSE IF correctCount = 0 THEN "incorrect"
    ELSE "partially_correct"

\* lines 207-239
BlankResult(question, studentAnswerArray, correctAnswerArray, correctCount, totalCount) ==
    LET allCorrect == correctCount = totalCount
    IN [questionId |-> question.id, isCorrect |-> allCorrect,
        status |-> BlankStatus(correctCount, totalCount),
        studentAnswer |-> Many(studentAnswerArray),
        correctAnswer |-> Many(correctAnswerArray),
        finalAnswerCorrect |-> allCorrect, workingSteps |-> None,
        aiFeedback |-> None,
        marksAwarded |-> IF totalCount > 0
                         THEN BlankMarks(correctCount, totalCount, MaxMarksOf(question))
                         ELSE 0,
        maxMarks |-> MaxMarksOf(question),
        feedback |-> IF allCorrect THEN "All blanks filled correctly!"
                     ELSE IF correctCount = 0 THEN "All answers are incorrect."
                     ELSE "Some answers are incorrect."]

HasBoxesField(question) == IsSome(question.answerBoxes)

\* line 175, negated: question.answerBoxes && question.answerBoxes.length !== 0
HasBoxes(question) ==
    IsSome(question.answerBoxes) /\ Len(Get(question.answerBoxes)) > 0

evaluateFillInTheBlank(question, studentAnswers) ==
    LET maxMarks == MaxMarksOf(question)
    IN IF ~HasBoxes(question)
       THEN [questionId |-> question.id, isCorrect |-> FALSE, status |-> "incorrect",
             studentAnswer |-> Many(<<>>), correctAnswer |-> Many(<<>>),
             finalAnswerCorrect |-> FALSE, workingSteps |-> None, aiFeedback |-> None,
             marksAwarded |-> 0, maxMarks |-> maxMarks,
             feedback |-> "Invalid question format"]
       ELSE LET boxes == Get(question.answerBoxes)
                studentAnswerArray ==
                    [k \in 1..Len(boxes) |-> Lookup(studentAnswers, boxes[k].id)]
                correctAnswerArray == [k \in 1..Len(boxes) |-> boxes[k].answer]
            IN BlankResult(question, studentAnswerArray, correctAnswerArray,
                           CorrectBlanks(studentAnswerArray, correctAnswerArray),
                           Len(boxes))

(***************************************************************************)
(* The evaluate-steps edge function and the step-grading adapter.          *)
(* What the external grader does is the environment's choice `openai`:     *)
(*   kind = "no_api_key"     OPENAI_API_KEY is not configured              *)
(*   kind = "fetch_failed"   the request to the grader throws              *)
(*   kind = "http_error"     the grader answers with a non-2xx status      *)
(*   kind = "no_content"     the reply has no message content              *)
(*   kind = "unparsable"     the content is not JSON and has no code fence *)
(*   kind = "bad_fence"      the content has a fence whose body is not JSON*)
(*   kind = "json"           the content parses; `steps` is the optional   *)
(*                           steps array, `bundle` tells whether the       *)
(*                           modelAnswer/correctPoints/improvementPoints   *)
(*                           fields are there                              *)
(***************************************************************************)
ParseFeedback == "Could not parse OpenAI response. Please review manually."
NoEvalFeedback == "Could not evaluate this step automatically."

FallbackSteps(studentSteps, text) ==
    [k \in 1..Len(studentSteps) |->
        [stepIndex |-> k - 1, stepContent |-> studentSteps[k],
         isCorrect |-> FALSE, feedback |-> text]]

ErrorResponse == [status |-> 500, error |-> TRUE, steps |-> Some(<<>>), bundle |-> None]

SliceOnly(steps, studentSteps) ==
    [k \in 1..(IF Len(steps) < Len(studentSteps) THEN Len(steps) ELSE Len(studentSteps)) |->
        steps[k]]

\* steps.slice(0, studentSteps.length).map(...): positions re-indexed, the
\* step text replaced by the submitted one
Reassociate(steps, studentSteps) ==
    [k \in 1..(IF Len(steps) < Len(studentSteps) THEN Len(steps) ELSE Len(studentSteps)) |->
        [stepIndex |-> k - 1,
         stepContent |-> IF studentSteps[k] # <<>> THEN studentSteps[k]
                         ELSE steps[k].stepContent,
         isCorrect |-> steps[k].isCorrect,
         feedback |-> steps[k].feedback]]

serve(studentSteps, openai) ==
    IF openai.kind = "no_api_key"
    THEN [status |-> 500, error |-> TRUE, steps |-> None, bundle |-> None]
    ELSE IF Len(studentSteps) = 0
    THEN [status |-> 200, error |-> FALSE, steps |-> Some(<<>>), bundle |-> None]
    ELSE IF openai.kind \in {"fetch_failed", "http_error", "no_content", "bad_fence"}
    THEN ErrorResponse
    ELSE IF openai.kind = "unparsable"
    THEN [status |-> 200, error |-> FALSE,
          steps |-> Some(FallbackSteps(studentSteps, ParseFeedback)), bundle |-> None]
    ELSE LET steps == IF IsSome(openai.steps) THEN Get(openai.steps)
                      ELSE FallbackSteps(studentSteps, NoEvalFeedback)
         IN [status |-> 200, error |-> FALSE,
             steps |-> Some(Reassociate(steps, studentSteps)),
             bundle |-> Some(IF openai.bundle
                             THEN [modelAnswer |-> <<"model step">>,
                                   correctPoints |-> <<"good">>,
                                   improvementPoints |-> <<"improve">>]
                             ELSE [modelAnswer |-> <<>>, correctPoints |-> <<>>,
                                   improvementPoints |-> <<>>])]

\* What the call to the edge function does is the environment's choice
\* `transport`:
\*   "ok"          the request reaches the function and its reply comes back
\*   "error"       the relay fails: { data: null, error }
\*   "throws"      the invoke call itself raises an exception
\*   "null_body"   the call resolves with { data: null, error: null }
\*   "error_body"  a 2xx reply whose body carries an error field
Transports == {"ok", "error", "throws", "null_body", "error_body"}

\* supabase.functions.invoke, when it does not throw: a relay failure or a
\* non-2xx status comes back as { data: null, error }
invoke(studentSteps, transport, openai) ==
    IF transport = "null_body" THEN [data |-> None, error |-> FALSE]
    ELSE IF transport = "error_body"
    THEN [data |-> Some([status |-> 200, error |-> TRUE, steps |-> None,
                         bundle |-> None]),
          error |-> FALSE]
    ELSE IF transport # "ok" \/ serve(studentSteps, openai).status # 200
    THEN [data |-> None, error |-> TRUE]
    ELSE [data |-> Some(serve(studentSteps, openai)), error |-> FALSE]

\* how a call ends: it returns a value or it throws
Returned(value) == [thrown |-> FALSE, value |-> value]
Thrown == [thrown |-> TRUE, value |-> None]

\* lines 56-61: null is None
StepEvaluationResult(response) ==
    Some([steps |-> IF IsSome(response.steps) THEN Get(response.steps) ELSE <<>>,
          modelAnswer |-> IF IsSome(response.bundle)
                          THEN Get(response.bundle).modelAnswer ELSE <<>>,
          correctPoints |-> IF IsSome(response.bundle)
                            THEN Get(response.bundle).correctPoints ELSE <<>>,
          improvementPoints |-> IF IsSome(response.bundle)
                                THEN Get(response.bundle).improvementPoints
                                ELSE <<>>])

\* lines 44-61, with what invoke resolved to: `response.error` on a null
\* body is a TypeError
AdapterAfterInvoke(reply) ==
    IF reply.error THEN Returned(None)
    ELSE IF ~IsSome(reply.data) THEN Thrown
    ELSE IF Get(reply.data).error THEN Returned(None)
    ELSE Returned(StepEvaluationResult(Get(reply.data)))

\* lines 33-61: the body of the try block
AdapterTry(studentSteps, transport, openai) ==
    IF transport = "throws" THEN Thrown
    ELSE AdapterAfterInvoke(invoke(studentSteps, transport, openai))

CatchNothing(completion) == completion

\* lines 62-65: catch (err) { ...; return null; }
CatchAll(completion) == IF completion.thrown THEN Returned(None) ELSE completion

\* how the call of the adapter ends
evaluateWorkingStepsWithOpenAI(studentSteps, transport, openai) ==
    CatchAll(AdapterTry(studentSteps, transport, openai))

\* lines 290-330 of evaluateOpenEnded: stepResult after
\* `try { stepResult = await evaluateWorkingStepsWithOpenAI(...) } catch { }`
StepResultOf(completion) == IF completion.thrown THEN None ELSE completion.value

(***************************************************************************)
(* evaluateOpenEnded.  The serialized working-steps value is held by what  *)
(* JSON.parse makes of it: json = "invalid" (parse throws), "nonarray"     *)
(* (some other JSON value) or "array" with its elements; an element is     *)
(* [isString, text], isString = FALSE for null, a number, ...              *)
(***************************************************************************)
WORKING_STEPS_KEY_PREFIX == "working-steps-"

\* lines 252-261
ParseWorkingSteps(studentAnswers, key) ==
    IF key \notin DOMAIN studentAnswers THEN <<>>
    ELSE IF studentAnswers[key].json = "array" THEN studentAnswers[key].elems
    ELSE <<>>

\* lines 264-269
CorrectAnswersOf(question) ==
    IF IsSome(question.answerBoxes) /\ Len(Get(question.answerBoxes)) > 0
    THEN [k \in 1..Len(Get(question.answerBoxes)) |-> Get(question.answerBoxes)[k].answer]
    ELSE <<>>

\* lines 278-282: correctAnswers.some(ca =>
\* compareMathExpressions(studentFinalAnswer, ca)) under its guard
FinalAnswerMatches(studentFinalAnswer, correctAnswers) ==
    /\ Len(correctAnswers) > 0
    /\ studentFinalAnswer # <<>>
    /\ \E k \in 1..Len(correctAnswers) :
          compareMathExpressions(studentFinalAnswer, correctAnswers[k])

\* the locals of evaluateOpenEnded up to the grading call (lines 249-295);
\* throws: s.trim() on an element that is not a string
OpenEndedLocals(question, studentAnswers) ==
    LET parsed == ParseWorkingSteps(studentAnswers,
                                    WORKING_STEPS_KEY_PREFIX \o question.id)
        throws == \E k \in 1..Len(parsed) : ~parsed[k].isString
        workingSteps == [k \in 1..Len(parsed) |-> parsed[k].text]
        correctAnswers == CorrectAnswersOf(question)
        nonEmptySteps == SelectSeq(workingSteps, LAMBDA t : trim(t) # <<>>)
        studentFinalAnswer ==
            IF Len(nonEmptySteps) > 0 THEN nonEmptySteps[Len(nonEmptySteps)]
            ELSE IF Len(workingSteps) > 0 THEN workingSteps[Len(workingSteps)]
            ELSE <<>>
    IN [throws |-> throws,
        workingSteps |-> workingSteps,
        correctAnswers |-> correctAnswers,
        studentFinalAnswer |-> studentFinalAnswer,
        finalAnswerCorrect |-> (~throws /\ FinalAnswerMatches(studentFinalAnswer,
                                                              correctAnswers)),
        maxMarks |-> MaxMarksOf(question),
        grade |-> Len(workingSteps) > 0 /\ Len(correctAnswers) > 0,
        cleanWorkingSteps |-> nonEmptySteps]

\* lines 297-308: every step was blank
OpenEndedSkipped(question, loc) ==
    [questionId |-> question.id, isCorrect |-> loc.finalAnswerCorrect,
     status |-> IF loc.finalAnswerCorrect THEN "correct" ELSE "incorrect",
     studentAnswer |-> One(loc.studentFinalAnswer),
     correctAnswer |-> OneOrMany(loc.correctAnswers),
     finalAnswerCorrect |-> loc.finalAnswerCorrect,
     workingSteps |-> Some(<<>>), aiFeedback |-> None,
     marksAwarded |-> IF loc.finalAnswerCorrect THEN loc.maxMarks ELSE 0,
     maxMarks |-> loc.maxMarks,
     feedback |-> IF loc.finalAnswerCorrect THEN "Correct answer!"
                  ELSE "Incorrect answer."]

\* Math.round((correctStepsCount / totalSteps) * maxMarks * 0.7)
StepMarks(correctStepsCount, totalSteps, maxMarks) ==
    MathRound(FMul(FMul(FDiv(correctStepsCount, totalSteps), FFromInt(maxMarks)),
                   StepWeight))

MathMax(a, b) == IF a > b THEN a ELSE b

\* lines 332-346; stepEvaluations is optional
OpenEndedMarks(finalAnswerCorrect, stepEvaluations, maxMarks) ==
    IF finalAnswerCorrect THEN maxMarks
    ELSE IF IsSome(stepEvaluations) /\ Len(Get(stepEvaluations)) > 0
    THEN LET steps == Get(stepEvaluations)
             correctStepsCount == Cardinality({k \in 1..Len(steps) : steps[k].isCorrect})
         IN MathMax(0, StepMarks(correctStepsCount, Len(steps), maxMarks))
    ELSE 0

OpenEndedStatusBinary(finalAnswerCorrect, marksAwarded) ==
    IF finalAnswerCorrect THEN "correct" ELSE "incorrect"

\* lines 348-354
OpenEndedStatus(finalAnswerCorrect, marksAwarded) ==
    IF finalAnswerCorrect THEN "correct"
    ELSE IF marksAwarded > 0 THEN "partially_correct"
    ELSE "incorrect"

\* lines 348-372: the status and the returned record
OpenEndedReturn(question, loc, stepEvaluations, aiFeedback, marksAwarded) ==
    LET status == OpenEndedStatus(loc.finalAnswerCorrect, marksAwarded)
    IN [questionId |-> question.id, isCorrect |-> loc.finalAnswerCorrect,
        status |-> status,
        studentAnswer |-> Many(loc.cleanWorkingSteps),
        correctAnswer |-> OneOrMany(loc.correctAnswers),
        finalAnswerCorrect |-> loc.finalAnswerCorrect,
        workingSteps |-> stepEvaluations, aiFeedback |-> aiFeedback,
        marksAwarded |-> marksAwarded, maxMarks |-> loc.maxMarks,
        feedback |-> IF status = "correct" THEN "Correct answer!"
                     ELSE IF status = "partially_correct"
                     THEN "Partially correct. You got some steps right."
                     ELSE "Incorrect answer. Please review your solution."]

\* lines 318-325
StepEvaluationsOf(stepResult) ==
    IF IsSome(stepResult) THEN Some(Get(stepResult).steps) ELSE None

\* lines 318-372: stepResult is what the adapter returned (None: no call
\* was made, or the adapter returned null)
OpenEndedResult(question, loc, stepResult) ==
    OpenEndedReturn(question, loc, StepEvaluationsOf(stepResult),
                    IF IsSome(stepResult)
                    THEN Some([modelAnswer |-> Get(stepResult).modelAnswer,
                               correctPoints |-> Get(stepResult).correctPoints,
                               improvementPoints |-> Get(stepResult).improvementPoints])
                    ELSE None,
                    OpenEndedMarks(loc.finalAnswerCorrect, StepEvaluationsOf(stepResult),
                                   loc.maxMarks))

(***************************************************************************)
(* evaluateQuiz                                                            *)
(***************************************************************************)
VARIABLES
    quiz,            \* quiz.questions, the first argument of evaluateQuiz
    studentAnswers,  \* question id -> (sub-key -> raw value), the second argument
    pc,              \* "idle": evaluateQuiz not called yet; "loop": at the head
                     \* of the for loop; "awaiting": suspended at the grading
                     \* call; "done": resolved; "rejected": rejected
    cursor,          \* number of questions whose evaluation has begun
    results,         \* the local array `results`
    evaluation,      \* the QuizEvaluation the promise resolved with, if any
    inflight,        \* grading calls that were issued and have not settled
    calls,           \* every invocation of evaluateWorkingStepsWithOpenAI so far
    settled,         \* how each settled invocation ended, in the order they settled
    isEvaluating,    \* QuizViewer's state isEvaluating
    submit,          \* handleSubmit: "idle" before the click, "awaiting" at
                     \* `await evaluateQuiz(...)`, "returned" after its finally
    completed        \* the evaluations onComplete was called with

vars == <<quiz, studentAnswers, pc, cursor, results, evaluation, inflight, calls,
          settled, isEvaluating, submit, completed>>

\* line 385: studentAnswers[question.id] || {}
QuestionAnswers(question) ==
    IF question.id \in DOMAIN studentAnswers THEN studentAnswers[question.id] ELSE <<>>

\* lines 388-396: which evaluator the loop hands the question to
EvaluatorFor(question) ==
    IF question.questionType = "mcq" \/ IsSome(question.mcqOptions) THEN "mcq"
    ELSE IF question.questionType = "fill-in-the-blank" THEN "fill-in-the-blank"
    ELSE "open-ended"

LoopReadyNoAwait == pc \in {"loop", "awaiting"}

\* the loop body runs only when the previous iteration has pushed its result:
\* `result = await evaluateOpenEnded(...)` suspends the loop
LoopReady == pc = "loop"

RECURSIVE SumOf(_, _)
SumOf(rs, field) ==
    IF rs = <<>> THEN 0 ELSE rs[1][field] + SumOf(Tail(rs), field)

\* Math.round((totalMarksAwarded / totalMaxMarks) * 100)
Percentage(totalMarksAwarded, totalMaxMarks) ==
    IF totalMaxMarks > 0
    THEN MathRound(FMul(FDiv(totalMarksAwarded, totalMaxMarks), FFromInt(100)))
    ELSE 0

\* lines 401-414
Aggregate(rs) ==
    [results |-> rs,
     totalScore |-> Cardinality({k \in 1..Len(rs) : rs[k].isCorrect}),
     maxScore |-> Len(rs),
     totalMarksAwarded |-> SumOf(rs, "marksAwarded"),
     totalMaxMarks |-> SumOf(rs, "maxMarks"),
     percentage |-> Percentage(SumOf(rs, "marksAwarded"), SumOf(rs, "maxMarks"))]

PushFront(rs, result) == <<result>> \o rs

\* results.push(result)
Push(rs, result) == Append(rs, result)

IssueCallTwice(log, call) == Append(Append(log, call), call)

\* one invocation of evaluateWorkingStepsWithOpenAI (lines 311-316)
IssueCall(log, call) == Append(log, call)

StaleQuestion == quiz[IF cursor > 0 THEN cursor ELSE 1]

\* line 384: the question of the current iteration of the for...of loop
CurrentQuestion == quiz[cursor + 1]

Consumed(argument) == <<>>

\* what an argument is after an evaluator has run over it: the evaluators
\* only read; find, map, filter, Object.values and for...of leave the
\* question, its lists and the answer map as they are
ReadOnly(argument) == argument

\* the arguments of the grading call for the q-th question (lines 311-316),
\* with the locals evaluateOpenEnded holds while it is suspended
GradingCall(q, loc) ==
    [q |-> q,
     loc |-> loc,
     studentSteps |-> loc.cleanWorkingSteps,
     studentFinalAnswer |-> loc.studentFinalAnswer,
     correctAnswer |-> loc.correctAnswers]

EvalMCQ ==
    /\ LoopReady
    /\ cursor < Len(quiz)
    /\ EvaluatorFor(CurrentQuestion) = "mcq"
    /\ results' = Push(results,
                       evaluateMCQ(CurrentQuestion,
                                   Lookup(QuestionAnswers(CurrentQuestion),
                                          CurrentQuestion.id)))
    /\ cursor' = cursor + 1
    /\ quiz' = ReadOnly(quiz)
    /\ studentAnswers' = ReadOnly(studentAnswers)
    /\ UNCHANGED <<pc, evaluation, inflight, calls, settled,
                   isEvaluating, submit, completed>>

EvalFillInTheBlank ==
    /\ LoopReady
    /\ cursor < Len(quiz)
    /\ EvaluatorFor(CurrentQuestion) = "fill-in-the-blank"
    /\ results' = Push(results,
                       evaluateFillInTheBlank(CurrentQuestion,
                                              QuestionAnswers(CurrentQuestion)))
    /\ cursor' = cursor + 1
    /\ quiz' = ReadOnly(quiz)
    /\ studentAnswers' = ReadOnly(studentAnswers)
    /\ UNCHANGED <<pc, evaluation, inflight, calls, settled,
                   isEvaluating, submit, completed>>

\* evaluateOpenEnded throws before the grading call: the await in the loop
\* rethrows and evaluateQuiz rejects
OpenEndedThrows ==
    /\ LoopReady
    /\ cursor < Len(quiz)
    /\ EvaluatorFor(CurrentQuestion) = "open-ended"
    /\ OpenEndedLocals(CurrentQuestion, QuestionAnswers(CurrentQuestion)).throws
    /\ pc' = "rejected"
    /\ cursor' = cursor + 1
    /\ quiz' = ReadOnly(quiz)
    /\ studentAnswers' = ReadOnly(studentAnswers)
    /\ UNCHANGED <<results, evaluation, inflight, calls, settled,
                   isEvaluating, submit, completed>>

\* evaluateOpenEnded returns without a grading call
OpenEndedLocal ==
    /\ LoopReady
    /\ cursor < Len(quiz)
    /\ EvaluatorFor(CurrentQuestion) = "open-ended"
    /\ \E loc \in {OpenEndedLocals(CurrentQuestion, QuestionAnswers(CurrentQuestion))} :
          /\ ~loc.throws
          /\ ~loc.grade \/ Len(loc.cleanWorkingSteps) = 0
          /\ results' = Push(results,
                             IF loc.grade THEN OpenEndedSkipped(CurrentQuestion, loc)
                             ELSE OpenEndedResult(CurrentQuestion, loc, None))
    /\ cursor' = cursor + 1
    /\ quiz' = ReadOnly(quiz)
    /\ studentAnswers' = ReadOnly(studentAnswers)
    /\ UNCHANGED <<pc, evaluation, inflight, calls, settled,
                   isEvaluating, submit, completed>>

\* evaluateOpenEnded issues the grading call and suspends (lines 311-316)
OpenEndedCall ==
    /\ LoopReady
    /\ cursor < Len(quiz)
    /\ EvaluatorFor(CurrentQuestion) = "open-ended"
    /\ \E loc \in {OpenEndedLocals(CurrentQuestion, QuestionAnswers(CurrentQuestion))} :
          /\ ~loc.throws
          /\ loc.grade
          /\ Len(loc.cleanWorkingSteps) > 0
          /\ inflight' = inflight \cup {GradingCall(cursor + 1, loc)}
          /\ calls' = IssueCall(calls, GradingCall(cursor + 1, loc))
    /\ pc' = "awaiting"
    /\ cursor' = cursor + 1
    /\ quiz' = ReadOnly(quiz)
    /\ studentAnswers' = ReadOnly(studentAnswers)
    /\ UNCHANGED <<results, evaluation, settled,
                   isEvaluating, submit, completed>>

\* the grading call settles and evaluateOpenEnded, suspended with its locals
\* call.loc, runs to its return
GraderReply(call, outcome) ==
    /\ call \in inflight
    /\ \E completion \in {evaluateWorkingStepsWithOpenAI(call.studentSteps,
                                                          outcome.transport,
                                                          outcome.openai)} :
          /\ settled' = Append(settled, [q |-> call.q, completion |-> completion])
          /\ results' = Push(results,
                             OpenEndedResult(quiz[call.q], call.loc,
                                             StepResultOf(completion)))
    /\ inflight' = inflight \ {call}
    /\ pc' = IF pc = "awaiting" THEN "loop" ELSE pc
    /\ quiz' = ReadOnly(quiz)
    /\ studentAnswers' = ReadOnly(studentAnswers)
    /\ UNCHANGED <<cursor, evaluation, calls,
                   isEvaluating, submit, completed>>

Finish ==
    /\ pc = "loop"
    /\ cursor = Len(quiz)
    /\ inflight = {}
    /\ evaluation' = Some(Aggregate(results))
    /\ pc' = "done"
    /\ quiz' = ReadOnly(quiz)
    /\ studentAnswers' = ReadOnly(studentAnswers)
    /\ UNCHANGED <<cursor, results, inflight, calls, settled,
                   isEvaluating, submit, completed>>

(***************************************************************************)
(* QuizViewer.handleSubmit (src/unnamed/part_003, lines 43-58)             *)
(***************************************************************************)
FinallySkipped(flag) == flag

\* line 56, in the finally block: setIsEvaluating(false)
FinallyBlock(flag) == FALSE

\* lines 44-46: setIsEvaluating(true), then evaluateQuiz is called and the
\* handler suspends at the await
Submit ==
    /\ submit = "idle"
    /\ pc = "idle"
    /\ isEvaluating' = TRUE
    /\ submit' = "awaiting"
    /\ pc' = "loop"
    /\ UNCHANGED <<quiz, studentAnswers, cursor, results, evaluation, inflight, calls,
                   settled, completed>>

\* lines 46-51 and 55-57: evaluateQuiz resolved; onComplete, when the prop
\* is there, gets the evaluation (else an alert shows the score)
SubmitResolved ==
    /\ submit = "awaiting"
    /\ pc = "done"
    /\ \E hasOnComplete \in BOOLEAN :
          completed' = IF hasOnComplete THEN Append(completed, Get(evaluation))
                       ELSE completed
    /\ isEvaluating' = FinallyBlock(isEvaluating)
    /\ submit' = "returned"
    /\ UNCHANGED <<quiz, studentAnswers, pc, cursor, results, evaluation, inflight, calls,
                   settled>>

\* lines 52-57: evaluateQuiz rejected; the catch block alerts
SubmitRejected ==
    /\ submit = "awaiting"
    /\ pc = "rejected"
    /\ isEvaluating' = FinallyBlock(isEvaluating)
    /\ submit' = "returned"
    /\ UNCHANGED <<quiz, studentAnswers, pc, cursor, results, evaluation, inflight, calls,
                   settled, completed>>

(***************************************************************************)
(* Inputs.  A quiz is a sequence of up to MaxQuestions questions, each     *)
(* taken with its submission from CoreCases, or one question taken from    *)
(* the wider QuestionCases; the grader's reply lists up to MaxReply steps. *)
(***************************************************************************)
MaxQuestions == 2
MaxReply == 2

IdOf(k) == "q" \o ToString(k)

s3 == <<"3">>
s4 == <<"4">>
s5 == <<"5">>
s7 == <<"7">>
sx5 == <<"x", " ", "=", " ", "5">>
sBlank == <<" ">>
\* pi as a lower-case name, as an upper-case command and as a command
\* written with a doubled backslash
sPi == <<"p", "i">>
sUpperPi == <<BS, "P", "I">>
sDoubledPi == <<BS, BS, "p", "i">>
\* "x = -2, -3", "x=-3,-2", "x=-2,-3", "x=-2", "x=5,7", "x=5,5"
sRootsSpaced == <<"x", " ", "=", " ", "-", "2", ",", " ", "-", "3">>
sRootsSwapped == <<"x", "=", "-", "3", ",", "-", "2">>
sRoots == <<"x", "=", "-", "2", ",", "-", "3">>
sOneRoot == <<"x", "=", "-", "2">>
sEq57 == <<"x", "=", "5", ",", "7">>
sEq55 == <<"x", "=", "5", ",", "5">>
\* "a = b = 5"
sChain == <<"a", " ", "=", " ", "b", " ", "=", " ", "5">>
optA == <<"a">>
optB == <<"b">>

Options == <<[id |-> optA, isCorrect |-> TRUE], [id |-> optB, isCorrect |-> FALSE]>>
\* option lists with both options flagged and with none
OptionsBoth == <<[id |-> optA, isCorrect |-> TRUE], [id |-> optB, isCorrect |-> TRUE]>>
OptionsNone == <<[id |-> optA, isCorrect |-> FALSE], [id |-> optB, isCorrect |-> FALSE]>>
Box1 == [id |-> "b1", answer |-> s5]
Box2 == [id |-> "b2", answer |-> s7]

\* ten answer boxes b1..b10, and a submission that fills in the first n
TenBoxes == [k \in 1..10 |-> [id |-> "b" \o ToString(k), answer |-> s5]]
FirstBoxesFilled(n, value) == [key \in {TenBoxes[k].id : k \in 1..n} |-> value]

Question(id, tag, options, boxes, marks) ==
    [id |-> id, questionType |-> tag, mcqOptions |-> options,
     answerBoxes |-> boxes, marks |-> marks]

Case(question, answers) == [question |-> question, answers |-> answers]

\* JSON.stringify of an array of strings, as the quiz viewer stores it
StepsJson(texts) ==
    [json |-> "array", elems |-> [k \in 1..Len(texts) |-> [isString |-> TRUE, text |-> texts[k]]]]

\* "[null]"
NullStepJson == [json |-> "array", elems |-> <<[isString |-> FALSE, text |-> <<>>]>>]

Fn(key, value) == [k \in {key} |-> value]

Steps(id, data) == Fn(WORKING_STEPS_KEY_PREFIX \o id, data)

\* the quiz viewer stores what is typed into the final-answer input of an
\* answer box under final-answer-<question id>-<box id>
FINAL_ANSWER_KEY_PREFIX == "final-answer-"

FinalAnswerKey(id, box) == FINAL_ANSWER_KEY_PREFIX \o id \o "-" \o box.id

\* multiple-choice dispatch: tagged, inferred from mcqOptions, tagged
\* open-ended but carrying mcqOptions, and tagged without options
McqCases(id) ==
    {Case(Question(id, "mcq", Some(Options), None, m), Fn(id, sel)) :
        m \in {0, 5}, sel \in {optA, optB}}
    \cup {Case(Question(id, Untagged, Some(Options), None, 5), Fn(id, optA)),
          Case(Question(id, "open-ended", Some(Options), Some(<<Box1>>), 5),
               Steps(id, StepsJson(<<s5>>))),
          Case(Question(id, "mcq", None, None, 5), Fn(id, optA)),
          Case(Question(id, "mcq", Some(Options), None, 5), <<>>),
          Case(Question(id, "mcq", None, None, 0), Fn(id, optB)),
          Case(Question(id, "mcq", None, None, 5), <<>>),
          Case(Question(id, "mcq", Some(OptionsNone), None, 5), Fn(id, optA)),
          Case(Question(id, "mcq", Some(OptionsNone), None, 5), <<>>)}
    \cup {Case(Question(id, "mcq", Some(OptionsBoth), None, 5), Fn(id, sel)) :
            sel \in {optA, optB}}

BlankCases(id) ==
    {Case(Question(id, "fill-in-the-blank", None, Some(<<Box1, Box2>>), 5), a) :
        a \in {("b1" :> s5) @@ ("b2" :> s7), ("b1" :> sx5) @@ ("b2" :> s3), Fn("b2", s3)}}
    \cup {Case(Question(id, "fill-in-the-blank", None, Some(<<Box1, Box2>>), 35),
               Fn("b1", s5)),
          Case(Question(id, "fill-in-the-blank", None, Some(<<>>), 5), Fn("b1", s5)),
          Case(Question(id, "fill-in-the-blank", None, Some(<<>>), 0), <<>>),
          Case(Question(id, "fill-in-the-blank", None, Some(TenBoxes), 0),
               FirstBoxesFilled(7, s5)),
          Case(Question(id, "fill-in-the-blank", None, Some(TenBoxes), 0),
               FirstBoxesFilled(3, s5)),
          Case(Question(id, "fill-in-the-blank", None, Some(<<Box1>>), 5),
               Fn("b1", sChain)),
          Case(Question(id, "fill-in-the-blank", None,
                        Some(<<[id |-> "b1", answer |-> sRootsSwapped]>>), 5),
               Fn("b1", sRootsSpaced)),
          Case(Question(id, "fill-in-the-blank", None,
                        Some(<<[id |-> "b1", answer |-> sEq57]>>), 5),
               Fn("b1", sEq55)),
          Case(Question(id, "fill-in-the-blank", None,
                        Some(<<[id |-> "b1", answer |-> sOneRoot]>>), 5),
               Fn("b1", sRoots)),
          Case(Question(id, "fill-in-the-blank", None,
                        Some(<<[id |-> "b1", answer |-> sRoots]>>), 5),
               Fn("b1", sOneRoot)),
          Case(Question(id, "fill-in-the-blank", None,
                        Some(<<[id |-> "b1", answer |-> sPi]>>), 5),
               Fn("b1", sUpperPi)),
          Case(Question(id, "fill-in-the-blank", None,
                        Some(<<[id |-> "b1", answer |-> sDoubledPi]>>), 5),
               Fn("b1", sx5)),
          Case(Question(id, "fill-in-the-blank", None, None, 5), Fn("b1", s5)),
          Case(Question(id, "fill-in-the-blank", None, None, 5), <<>>),
          Case(Question(id, "fill-in-the-blank", None, Some(<<Box1, Box2>>), 3),
               Fn("b1", s5)),
          Case(Question(id, "fill-in-the-blank", None, Some(TenBoxes), 45),
               FirstBoxesFilled(7, s5))}

OpenCases(id) ==
    {Case(Question(id, "open-ended", None, Some(<<Box1>>), 5), a) :
        a \in {<<>>,
               Steps(id, [json |-> "invalid", elems |-> <<>>]),
               Steps(id, [json |-> "nonarray", elems |-> <<>>]),
               Steps(id, NullStepJson),
               Steps(id, StepsJson(<<sBlank>>)),
               Steps(id, StepsJson(<<s5>>)),
               Steps(id, StepsJson(<<s3, sx5>>)),
               Steps(id, StepsJson(<<s3, s4>>)),
               Fn(FinalAnswerKey(id, Box1), s5),
               Fn(FinalAnswerKey(id, Box1), s3)}}
    \cup {Case(Question(id, "open-ended", None, Some(<<Box1>>), m),
               Steps(id, StepsJson(<<s3>>))) : m \in {0, 5, 35, 45}}
    \cup {Case(Question(id, "open-ended", None, Some(<<Box1, Box2>>), 5),
               Steps(id, StepsJson(<<s5>>))),
          Case(Question(id, "open-ended", None, None, 5), Steps(id, StepsJson(<<s5>>))),
          Case(Question(id, Untagged, None, Some(<<Box1>>), 5),
               Steps(id, StepsJson(<<s3, sBlank>>)))}

QuestionCases(id) == McqCases(id) \cup BlankCases(id) \cup OpenCases(id)

CoreCases(id) ==
    {Case(Question(id, "mcq", Some(Options), None, 5), Fn(id, optA)),
     Case(Question(id, "mcq", Some(Options), None, 5), Fn(id, optB)),
     Case(Question(id, Untagged, Some(Options), None, 5), Fn(id, optA)),
     Case(Question(id, "open-ended", Some(Options), Some(<<Box1>>), 5),
          Steps(id, StepsJson(<<s5>>))),
     Case(Question(id, "fill-in-the-blank", None, Some(<<Box1, Box2>>), 35), Fn("b1", s5)),
     Case(Question(id, "open-ended", None, Some(<<Box1>>), 5), <<>>),
     Case(Question(id, "open-ended", None, Some(<<Box1>>), 5), Steps(id, NullStepJson)),
     Case(Question(id, "open-ended", None, Some(<<Box1>>), 5), Steps(id, StepsJson(<<s3>>))),
     Case(Question(id, "open-ended", None, Some(<<Box1>>), 5),
          Steps(id, StepsJson(<<s3, sx5>>))),
     Case(Question(id, Untagged, None, Some(<<Box1>>), 5),
          Steps(id, StepsJson(<<s3, sBlank>>)))}

\* the sequences of n cases, the k-th about question IdOf(k)
RECURSIVE CaseSeqs(_)
CaseSeqs(n) ==
    IF n = 0 THEN {<<>>}
    ELSE {Append(t, c) : t \in CaseSeqs(n - 1), c \in CoreCases(IdOf(n))}

Submissions ==
    UNION {CaseSeqs(n) : n \in 0..MaxQuestions} \cup {<<c>> : c \in QuestionCases(IdOf(1))}

\* a step evaluation as the grader words it: its own index and step text
GraderStep(ok) ==
    [stepIndex |-> 9, stepContent |-> <<"?">>, isCorrect |-> ok, feedback |-> "graded"]

RECURSIVE SeqsUpTo(_, _)
SeqsUpTo(S, n) ==
    IF n = 0 THEN {<<>>}
    ELSE LET shorter == SeqsUpTo(S, n - 1)
         IN shorter \cup {Append(t, x) : t \in shorter, x \in S}

OpenAIReplies ==
    {[kind |-> k, steps |-> None, bundle |-> FALSE] :
        k \in {"no_api_key", "fetch_failed", "http_error", "no_content",
               "unparsable", "bad_fence"}}
    \cup {[kind |-> "json", steps |-> None, bundle |-> b] : b \in BOOLEAN}
    \cup {[kind |-> "json", steps |-> Some(l), bundle |-> TRUE] :
            l \in SeqsUpTo({GraderStep(TRUE), GraderStep(FALSE)}, MaxReply)}

\* the request does not reach the edge function, or it does and the grader
\* behaves as openai
GraderOutcomes ==
    {[transport |-> t, openai |-> [kind |-> "fetch_failed", steps |-> None,
                                   bundle |-> FALSE]] : t \in Transports \ {"ok"}}
    \cup {[transport |-> "ok", openai |-> r] : r \in OpenAIReplies}

Init ==
    /\ \E cases \in Submissions :
        /\ quiz = [k \in 1..Len(cases) |-> cases[k].question]
        /\ studentAnswers = [id \in {cases[k].question.id : k \in 1..Len(cases)} |->
                                cases[CHOOSE k \in 1..Len(cases) :
                                        cases[k].question.id = id].answers]
    /\ pc = "idle"
    /\ cursor = 0
    /\ results = <<>>
    /\ evaluation = None
    /\ inflight = {}
    /\ calls = <<>>
    /\ settled = <<>>
    /\ isEvaluating = FALSE
    /\ submit = "idle"
    /\ completed = <<>>

Next ==
    \/ Submit
    \/ SubmitResolved
    \/ SubmitRejected
    \/ EvalMCQ
    \/ EvalFillInTheBlank
    \/ OpenEndedThrows
    \/ OpenEndedLocal
    \/ OpenEndedCall
    \/ \E call \in inflight, outcome \in GraderOutcomes : GraderReply(call, outcome)
    \/ Finish

Spec == Init /\ [][Next]_vars

\* the continuation of handleSubmit runs once the promise of evaluateQuiz has
\* settled: the event loop runs every queued continuation
LiveSpec == Spec /\ WF_vars(SubmitResolved) /\ WF_vars(SubmitRejected)

(***************************************************************************)
(* Properties.  results[k] is the result of quiz[k].                       *)
(***************************************************************************)
\* the questions evaluateQuiz handed to evaluateOpenEnded and has a result for
OpenEndedResults == {k \in 1..Len(results) : EvaluatorFor(quiz[k]) = "open-ended"}

\* round(p / q), halves up, in exact arithmetic
RoundHalfUp(p, q) == (2 * p + q) \div (2 * q)

CountCorrect(steps) == Cardinality({k \in 1..Len(steps) : steps[k].isCorrect})

\* C1: every result has maxMarks equal to the question's marks (1 when the
\* field is absent) and marksAwarded an integer in [0, maxMarks].
C1_MarksInRange ==
    \A k \in 1..Len(results) :
        /\ results[k].maxMarks = IF quiz[k].marks >= 1 THEN quiz[k].marks ELSE 1
        /\ results[k].marksAwarded \in 0..results[k].maxMarks

\* a question without a marks field was graded through the adapter and got
\* method marks for a wrong final answer
C1_Witness ==
    \E k \in 1..Len(results) :
        /\ quiz[k].marks = 0
        /\ IsSome(results[k].workingSteps)
        /\ results[k].marksAwarded > 0
        /\ ~results[k].finalAnswerCorrect

\* C2: evaluateQuiz never rejects and resolves with one result per question,
\* whatever the question data, the working-steps value and the grader do.
C2_NeverRejects ==
    /\ pc # "rejected"
    /\ pc = "done" => Len(Get(evaluation).results) = Len(quiz)

\* C3: the results evaluateQuiz returns are in the quiz's question order, one
\* per question: results[i].questionId = quiz.questions[i].id.
C3_ResultsInQuizOrder ==
    /\ Len(results) <= Len(quiz)
    /\ \A k \in 1..Len(results) : results[k].questionId = quiz[k].id
    /\ pc = "done" => /\ Len(Get(evaluation).results) = Len(quiz)
                      /\ \A k \in 1..Len(quiz) :
                            Get(evaluation).results[k].questionId = quiz[k].id

\* a resolved quiz of two questions, one evaluated synchronously and one
\* graded through the adapter
C3_Witness ==
    /\ pc = "done"
    /\ Len(quiz) >= 2
    /\ \E i, j \in 1..Len(quiz) :
        /\ EvaluatorFor(quiz[i]) = "mcq"
        /\ \E c \in 1..Len(calls) : calls[c].q = j

\* C4: at most one grading call is in flight, grading calls are issued in
\* question order, and question i+1 is not begun before result i is pushed.
C4_Sequential ==
    /\ Cardinality(inflight) <= 1
    /\ \A a, b \in 1..Len(calls) : a < b => calls[a].q < calls[b].q
    /\ cursor <= Len(results) + 1
    /\ pc = "loop" => cursor = Len(results)

\* the second grading call of a quiz is in flight, the first has settled
C4_Witness ==
    /\ pc = "awaiting"
    /\ Len(calls) = 2
    /\ Cardinality(inflight) = 1
    /\ Len(results) = 1

\* C5: the adapter is invoked at most once per open-ended question, also when
\* the invocation fails: the question is then scored from the local verdict.
C5_NoRetry ==
    /\ \A a, b \in 1..Len(calls) : a # b => calls[a].q # calls[b].q
    /\ \A k \in 1..Len(results) :
          (\E c \in 1..Len(calls) : calls[c].q = k) /\ results[k].workingSteps = None
          => results[k].marksAwarded =
                IF results[k].finalAnswerCorrect THEN results[k].maxMarks ELSE 0

\* a grading call failed and its question has its result
C5_Witness ==
    \E k \in 1..Len(results) :
        /\ \E c \in 1..Len(calls) : calls[c].q = k
        /\ results[k].workingSteps = None
        /\ inflight = {}

\* what evaluateOpenEnded can return for a question
OpenEndedOutcomesWith(question, loc) ==
    {OpenEndedSkipped(question, loc)}
    \cup {OpenEndedResult(question, loc, stepResult) :
            stepResult \in {None} \cup
                {StepResultOf(evaluateWorkingStepsWithOpenAI(loc.cleanWorkingSteps,
                                                             o.transport, o.openai)) :
                    o \in GraderOutcomes}}

OpenEndedOutcomes(question) ==
    OpenEndedOutcomesWith(question, OpenEndedLocals(question, QuestionAnswers(question)))

\* the evaluator a question is to be handed to: by its tag, by the presence
\* of mcqOptions when it has no tag
EvaluatorByTag(question) ==
    IF question.questionType # Untagged THEN question.questionType
    ELSE IF IsSome(question.mcqOptions) THEN "mcq"
    ELSE "open-ended"

\* C6: a question with an explicit questionType is evaluated by the evaluator
\* of that tag; mcqOptions select the MCQ evaluator only for an untagged
\* question, and an untagged question without mcqOptions is open-ended.
C6_DispatchByTag ==
    \A k \in 1..Len(results) :
        \A q \in {quiz[k]} :
            IF EvaluatorByTag(q) = "mcq"
            THEN results[k] = evaluateMCQ(q, Lookup(QuestionAnswers(q), q.id))
            ELSE IF EvaluatorByTag(q) = "fill-in-the-blank"
            THEN results[k] = evaluateFillInTheBlank(q, QuestionAnswers(q))
            ELSE results[k] \in OpenEndedOutcomes(q)

\* C7: the aggregate is the reference fold over the results; percentage is
\* round(100 * totalMarksAwarded / totalMaxMarks), 0 when totalMaxMarks is 0.
C7_AggregateIsFold ==
    pc = "done" =>
        LET e == Get(evaluation)
            awarded == SumOf(e.results, "marksAwarded")
            max == SumOf(e.results, "maxMarks")
        IN /\ e.totalScore = Cardinality({k \in 1..Len(e.results) : e.results[k].isCorrect})
           /\ e.maxScore = Len(quiz)
           /\ e.totalMarksAwarded = awarded
           /\ e.totalMaxMarks = max
           /\ e.percentage = IF max = 0 THEN 0 ELSE RoundHalfUp(100 * awarded, max)

\* C8: finalAnswerCorrect is true iff every submitted final value matches its
\* answer box in positional order; with a different number of submitted
\* values and boxes it is false.  The submitted final value is the last
\* non-empty working step.
C8_FinalAnswerPositional ==
    \A k \in OpenEndedResults :
        \A loc \in {OpenEndedLocals(quiz[k], QuestionAnswers(quiz[k]))} :
            \A submitted \in {IF loc.studentFinalAnswer = <<>> THEN <<>>
                               ELSE <<loc.studentFinalAnswer>>} :
                results[k].finalAnswerCorrect =
                    /\ Len(submitted) > 0
                    /\ Len(submitted) = Len(loc.correctAnswers)
                    /\ \A i \in 1..Len(submitted) :
                          compareMathExpressions(submitted[i], loc.correctAnswers[i])

\* C9: when the final answer is wrong the marks awarded never exceed 70% of
\* the question's value.
C9_MethodMarksCapped ==
    \A k \in OpenEndedResults :
        ~results[k].finalAnswerCorrect
        => 10 * results[k].marksAwarded <= 7 * results[k].maxMarks

\* C10: marksAwarded is maxMarks when the final answer is correct, else
\* round(maxMarks * 0.7 * correctStepCount / totalStepCount), halves up, when
\* the grader returned at least one step evaluation, else 0.
C10_MarksFormula ==
    \A k \in OpenEndedResults :
        LET r == results[k]
            graded == IsSome(r.workingSteps) /\ Len(Get(r.workingSteps)) > 0
        IN r.marksAwarded =
              IF r.finalAnswerCorrect THEN r.maxMarks
              ELSE IF graded
              THEN RoundHalfUp(7 * r.maxMarks * CountCorrect(Get(r.workingSteps)),
                               10 * Len(Get(r.workingSteps)))
              ELSE 0

\* the final-answer values of the submission match the answer boxes, one
\* value per box
FinalAnswersSubmittedCorrect(question, answers) ==
    /\ IsSome(question.answerBoxes)
    /\ Len(Get(question.answerBoxes)) > 0
    /\ \A b \in 1..Len(Get(question.answerBoxes)) :
          \A box \in {Get(question.answerBoxes)[b]} :
              /\ FinalAnswerKey(question.id, box) \in DOMAIN answers
              /\ compareMathExpressions(answers[FinalAnswerKey(question.id, box)],
                                        box.answer)

\* C11: an open-ended submission without a non-empty working step is scored
\* without an adapter call: maxMarks if finalAnswerCorrect, else 0; with a
\* correct final answer submitted it gets full marks.
C11_NoStepsNoCall ==
    \A k \in OpenEndedResults :
        \A loc \in {OpenEndedLocals(quiz[k], QuestionAnswers(quiz[k]))} :
            Len(loc.cleanWorkingSteps) = 0 =>
                /\ \A c \in 1..Len(calls) : calls[c].q # k
                /\ results[k].marksAwarded =
                      IF results[k].finalAnswerCorrect THEN results[k].maxMarks ELSE 0
                /\ FinalAnswersSubmittedCorrect(quiz[k], QuestionAnswers(quiz[k]))
                   => /\ results[k].finalAnswerCorrect
                      /\ results[k].marksAwarded = results[k].maxMarks

\* the feedback strings evaluateOpenEnded gives for a question when the
\* adapter returned step evaluations
FeedbackWhenGraded(question, loc) ==
    {OpenEndedResult(question, loc, stepResult).feedback :
        stepResult \in {StepResultOf(evaluateWorkingStepsWithOpenAI(
                                         loc.cleanWorkingSteps, o.transport, o.openai)) :
                            o \in GraderOutcomes} \ {None}}

\* C12: when the adapter returned null, the question still has its result:
\* isCorrect and finalAnswerCorrect are the local verdict, marksAwarded is
\* maxMarks or 0, no step evaluations are attached, and the feedback differs
\* from every feedback given when grading succeeded.
C12_DegradedFeedback ==
    \A i \in 1..Len(settled) :
        settled[i].completion.value = None /\ settled[i].q <= Len(results) =>
            \A k \in {settled[i].q} :
                \A loc \in {OpenEndedLocals(quiz[k], QuestionAnswers(quiz[k]))} :
                    /\ results[k].isCorrect = loc.finalAnswerCorrect
                    /\ results[k].finalAnswerCorrect = loc.finalAnswerCorrect
                    /\ results[k].marksAwarded =
                          IF loc.finalAnswerCorrect THEN loc.maxMarks ELSE 0
                    /\ results[k].workingSteps = None
                    /\ results[k].feedback \notin FeedbackWhenGraded(quiz[k], loc)

\* the call fails: a transport error, an exception, a null body, a body with
\* an error field, or an error reply of the edge function
CallFails(o) ==
    \/ o.transport # "ok"
    \/ o.openai.kind \in {"no_api_key", "fetch_failed", "http_error", "no_content"}

\* C13: evaluateWorkingStepsWithOpenAI never throws to its caller, and
\* returns null on a transport error, an exception during the call, a null
\* body or a response carrying an error field.
C13_AdapterNeverThrows ==
    /\ \A i \in 1..Len(settled) : ~settled[i].completion.thrown
    /\ \A call \in inflight, o \in GraderOutcomes :
          \A completion \in {evaluateWorkingStepsWithOpenAI(call.studentSteps,
                                                             o.transport, o.openai)} :
              /\ ~completion.thrown
              /\ CallFails(o) => completion.value = None

\* a grading call has settled with null and the loop has gone on
C13_Witness ==
    /\ pc = "done"
    /\ \E i \in 1..Len(settled) : settled[i].completion = Returned(None)

\* C14: whatever the length of the step list in the grader's reply, the step
\* list handed back to the evaluator has exactly one entry per submitted
\* working step.
C14_StepListMatchesSubmission ==
    \A i \in 1..Len(settled) :
        IsSome(settled[i].completion.value) =>
            \A c \in 1..Len(calls) :
                calls[c].q = settled[i].q =>
                    Len(Get(settled[i].completion.value).steps) = Len(calls[c].studentSteps)

\* one entry per submitted step, each marked incorrect, all with the same
\* message
IsFallback(steps, studentSteps) ==
    /\ Len(steps) = Len(studentSteps)
    /\ \A k \in 1..Len(steps) :
          /\ ~steps[k].isCorrect
          /\ steps[k].feedback \in {ParseFeedback, NoEvalFeedback}

\* C15: when the grader's content is not JSON, also when it is a code fence
\* whose body is not JSON, the caller receives a non-null result: the
\* fallback with one entry per submitted step, each marked incorrect.
C15_UnparsableContentFallsBack ==
    \A call \in inflight, o \in GraderOutcomes :
        o.transport = "ok" /\ o.openai.kind \in {"unparsable", "bad_fence"} =>
            \A completion \in {evaluateWorkingStepsWithOpenAI(call.studentSteps,
                                                               o.transport, o.openai)} :
                /\ ~completion.thrown
                /\ IsSome(completion.value)
                /\ IsFallback(Get(completion.value).steps, call.studentSteps)

\* C16: on a question with mcqOptions, evaluateMCQ returns isCorrect, status
\* 'correct' and full marks iff the submitted id is the id of an option
\* flagged isCorrect, else status 'incorrect' and 0 marks, whether zero, one or
\* several options carry the flag.
C16_McqCorrectIffFlagged ==
    \A k \in 1..Len(results) :
        EvaluatorFor(quiz[k]) = "mcq" /\ IsSome(quiz[k].mcqOptions) =>
            \A sel \in {Lookup(QuestionAnswers(quiz[k]), quiz[k].id)} :
                IF \E o \in 1..Len(Get(quiz[k].mcqOptions)) :
                      /\ Get(quiz[k].mcqOptions)[o].isCorrect
                      /\ Get(quiz[k].mcqOptions)[o].id = sel
                THEN /\ results[k].isCorrect
                     /\ results[k].status = "correct"
                     /\ results[k].marksAwarded = results[k].maxMarks
                ELSE /\ ~results[k].isCorrect
                     /\ results[k].status = "incorrect"
                     /\ results[k].marksAwarded = 0

\* the questions evaluateQuiz handed to evaluateFillInTheBlank, with at least
\* one answer box, and has a result for
BlankResults ==
    {k \in 1..Len(results) :
        /\ EvaluatorFor(quiz[k]) = "fill-in-the-blank"
        /\ IsSome(quiz[k].answerBoxes)
        /\ Len(Get(quiz[k].answerBoxes)) > 0}

\* the boxes whose submitted value (empty when missing) matches the answer
MatchingBoxes(question, answers) ==
    {b \in 1..Len(Get(question.answerBoxes)) :
        compareMathExpressions(Lookup(answers, Get(question.answerBoxes)[b].id),
                               Get(question.answerBoxes)[b].answer)}

\* C17: evaluateFillInTheBlank awards round(maxMarks * correctCount /
\* totalBoxes), halves up, where correctCount is the number of boxes whose
\* submitted value matches.
C17_BlankMarksRounded ==
    \A k \in BlankResults :
        results[k].marksAwarded =
            RoundHalfUp(results[k].maxMarks
                            * Cardinality(MatchingBoxes(quiz[k], QuestionAnswers(quiz[k]))),
                        Len(Get(quiz[k].answerBoxes)))

\* C18: on a question with at least one answer box the status of
\* evaluateFillInTheBlank is 'correct' iff all boxes match, 'incorrect' iff
\* none matches, 'partially_correct' otherwise, and isCorrect is true exactly
\* when the status is 'correct'.
C18_BlankStatus ==
    \A k \in BlankResults :
        \A matched \in {Cardinality(MatchingBoxes(quiz[k], QuestionAnswers(quiz[k])))} :
            /\ results[k].status = "correct" <=> matched = Len(Get(quiz[k].answerBoxes))
            /\ results[k].status = "incorrect" <=> matched = 0
            /\ results[k].status = "partially_correct"
                  <=> (matched > 0 /\ matched < Len(Get(quiz[k].answerBoxes)))
            /\ results[k].isCorrect <=> results[k].status = "correct"

\* a quiz resolved with a fill-in-the-blank result that has some but not all
\* boxes right
C18_Witness ==
    /\ pc = "done"
    /\ \E k \in BlankResults :
          /\ results[k].status = "partially_correct"
          /\ ~results[k].isCorrect
          /\ results[k].marksAwarded > 0

\* the question lacks the data its evaluator needs: an MCQ without
\* mcqOptions, a fill-in-the-blank with answerBoxes missing or empty
Malformed(question) ==
    \/ EvaluatorFor(question) = "mcq" /\ ~IsSome(question.mcqOptions)
    \/ /\ EvaluatorFor(question) = "fill-in-the-blank"
       /\ (~IsSome(question.answerBoxes) \/ Len(Get(question.answerBoxes)) = 0)

\* C19: an MCQ without mcqOptions and a fill-in-the-blank whose answerBoxes
\* is missing or empty are not thrown on: whatever the submission, each gets a
\* result with isCorrect false, status 'incorrect', 0 marks, maxMarks the
\* question's marks (1 when absent) and a diagnostic feedback.
C19_FailSoft ==
    \A k \in 1..cursor :
        Malformed(quiz[k]) =>
            /\ k <= Len(results)
            /\ ~results[k].isCorrect
            /\ results[k].status = "incorrect"
            /\ results[k].marksAwarded = 0
            /\ results[k].maxMarks = IF quiz[k].marks >= 1 THEN quiz[k].marks ELSE 1
            /\ results[k].feedback = "Invalid question format"

\* a quiz resolved whose fill-in-the-blank question has an empty answerBoxes
C19_Witness ==
    /\ pc = "done"
    /\ \E k \in 1..Len(results) :
          /\ EvaluatorFor(quiz[k]) = "fill-in-the-blank"
          /\ quiz[k].answerBoxes = Some(<<>>)
          /\ results[k].feedback = "Invalid question format"

\* the non-empty expressions evaluateFillInTheBlank normalized for result k:
\* the submitted values and the answers of the boxes
ExpressionsOf(k) ==
    {results[k].studentAnswer.items[i] : i \in 1..Len(results[k].studentAnswer.items)}
    \cup {results[k].correctAnswer.items[i] :
            i \in 1..Len(results[k].correctAnswer.items)}

\* C20: normalizeMathExpression is idempotent on every non-empty expression:
\* normalize(normalize(a)) = normalize(a), also for commands in upper case and
\* with doubled backslashes.
C20_NormalizeIdempotent ==
    \A k \in BlankResults :
        \A a \in ExpressionsOf(k) \ {<<>>} :
            \A once \in {normalizeMathExpression(a)} :
                normalizeMathExpression(once) = once

\* the fill-in-the-blank results of questions with one answer box: isCorrect
\* is what compareMathExpressions(SubmittedFor(k), AnswerFor(k)) returned
OneBoxResults == {k \in BlankResults : Len(Get(quiz[k].answerBoxes)) = 1}
SubmittedFor(k) == Lookup(QuestionAnswers(quiz[k]), Get(quiz[k].answerBoxes)[1].id)
AnswerFor(k) == Get(quiz[k].answerBoxes)[1].answer

\* both strings are there and their normal forms differ
NoDirectMatch(k) ==
    /\ SubmittedFor(k) # <<>>
    /\ AnswerFor(k) # <<>>
    /\ normalizeMathExpression(SubmittedFor(k)) # normalizeMathExpression(AnswerFor(k))

\* C21: without a direct normalized match, when both sides extract to
\* non-empty value lists of equal length, compareMathExpressions is true iff
\* the sets of normalized values are equal, in whatever order they are written.
C21_EqualLengthComparedAsSets ==
    \A k \in OneBoxResults :
        \A sv \in {extractValueFromEquation(SubmittedFor(k))} :
            \A cv \in {extractValueFromEquation(AnswerFor(k))} :
                NoDirectMatch(k) /\ Len(sv) > 0 /\ Len(sv) = Len(cv) =>
                    (results[k].isCorrect <=> NormalizedSet(sv) = NormalizedSet(cv))

\* C22: without a direct normalized match, when the two sides extract to
\* different numbers of values, compareMathExpressions is true only if the
\* normalized whole student answer is the normalized form of a value
\* extracted from the correct side.
C22_WholeAnswerAgainstValues ==
    \A k \in OneBoxResults :
        \A sv \in {extractValueFromEquation(SubmittedFor(k))} :
            \A cv \in {extractValueFromEquation(AnswerFor(k))} :
                NoDirectMatch(k) /\ Len(sv) # Len(cv) /\ results[k].isCorrect =>
                    \E i \in 1..Len(cv) :
                        normalizeMathExpression(SubmittedFor(k))
                            = normalizeMathExpression(cv[i])

RECURSIVE Rerun(_, _, _)
RerunOpenEnded(k, replies, acc, loc) ==
    IF loc.grade /\ Len(loc.cleanWorkingSteps) > 0 /\ replies = <<>> THEN acc
    ELSE IF loc.grade /\ Len(loc.cleanWorkingSteps) > 0
    THEN Rerun(k + 1, Tail(replies),
               Append(acc, OpenEndedResult(quiz[k], loc,
                                           StepResultOf(Head(replies).completion))))
    ELSE Rerun(k + 1, replies,
               Append(acc, IF loc.grade THEN OpenEndedSkipped(quiz[k], loc)
                           ELSE OpenEndedResult(quiz[k], loc, None)))

Rerun(k, replies, acc) ==
    IF k > Len(quiz) THEN acc
    ELSE IF EvaluatorFor(quiz[k]) = "mcq"
    THEN Rerun(k + 1, replies,
               Append(acc, evaluateMCQ(quiz[k],
                                       Lookup(QuestionAnswers(quiz[k]), quiz[k].id))))
    ELSE IF EvaluatorFor(quiz[k]) = "fill-in-the-blank"
    THEN Rerun(k + 1, replies,
               Append(acc, evaluateFillInTheBlank(quiz[k], QuestionAnswers(quiz[k]))))
    ELSE RerunOpenEnded(k, replies, acc,
                        OpenEndedLocals(quiz[k], QuestionAnswers(quiz[k])))

CallsFor(k) == {c \in 1..Len(calls) : calls[c].q = k}

\* C25: for an open-ended submission with at least one non-empty working
\* step the adapter is invoked exactly once, with the non-empty steps in
\* their order, the question's correct answers, and the final answer the
\* local check used.
C25_OneCallWithCleanSteps ==
    \A k \in OpenEndedResults :
        \A loc \in {OpenEndedLocals(quiz[k], QuestionAnswers(quiz[k]))} :
            (\E i \in 1..Len(loc.workingSteps) : trim(loc.workingSteps[i]) # <<>>) =>
                /\ Cardinality(CallsFor(k)) = 1
                /\ \A c \in CallsFor(k) :
                      /\ calls[c].studentSteps =
                            SelectSeq(loc.workingSteps, LAMBDA t : trim(t) # <<>>)
                      /\ calls[c].correctAnswer = CorrectAnswersOf(quiz[k])
                      /\ calls[c].studentFinalAnswer = loc.studentFinalAnswer

\* C26: the step evaluation returned at position i has stepIndex i and the
\* text of the i-th submitted step, whatever index and text the grader gave.
C26_StepsReassociated ==
    \A i \in 1..Len(settled) :
        IsSome(settled[i].completion.value) =>
            \A c \in CallsFor(settled[i].q) :
                \A steps \in {Get(settled[i].completion.value).steps} :
                    \A p \in 1..Len(steps) :
                        /\ steps[p].stepIndex = p - 1
                        /\ p <= Len(calls[c].studentSteps)
                        /\ steps[p].stepContent = calls[c].studentSteps[p]

\* the grader's evaluations of two submitted steps have come back, worded
\* by the grader
C26_Witness ==
    \E i \in 1..Len(settled) :
        /\ IsSome(settled[i].completion.value)
        /\ Len(Get(settled[i].completion.value).steps) = 2
        /\ Get(settled[i].completion.value).steps[2].feedback = "graded"

\* the position of the last '=' of a segment that has one
LastEquals(segment) ==
    CHOOSE p \in 1..Len(segment) :
        segment[p] = "=" /\ \A j \in (p+1)..Len(segment) : segment[j] # "="

\* the value of a segment: the text after its last '=' up to the next comma,
\* the whole segment when it has no '='
SegmentValue(segment) ==
    IF \E p \in 1..Len(segment) : segment[p] = "="
    THEN trim(SubSeq(segment, LastEquals(segment) + 1,
                     NextComma(segment, LastEquals(segment) + 1) - 1))
    ELSE trim(segment)

SegmentValues(segments) == [i \in 1..Len(segments) |-> SegmentValue(segments[i])]

\* C27: extractValueFromEquation splits on the words or/and and returns, in
\* segment order, for a segment with '=' the text after its last '=' up to
\* the next comma, for a segment without '=' the whole segment.
C27_ValueAfterLastEquals ==
    \A k \in BlankResults :
        \A a \in ExpressionsOf(k) \ {<<>>} :
            extractValueFromEquation(a) = SegmentValues(SplitOrAnd(Cleaned(a)))

\* no partial evaluation is exposed by handleSubmit
NoPartialExposure ==
    /\ Len(completed) <= 1
    /\ \A i \in 1..Len(completed) :
          /\ pc = "done"
          /\ completed[i] = Get(evaluation)
          /\ Len(completed[i].results) = Len(quiz)
    /\ pc = "rejected" => completed = <<>>
    /\ submit = "awaiting" => isEvaluating

\* C28: onComplete is called at most once per submission, only after
\* evaluateQuiz has resolved and with the complete evaluation, never when it
\* rejects; once evaluateQuiz has resolved or rejected, isEvaluating is
\* eventually false again.
C28_NoPartialExposure ==
    /\ []NoPartialExposure
    /\ (submit = "awaiting" /\ pc \in {"done", "rejected"}) ~> ~isEvaluating

\* handleSubmit has returned after handing a two-question evaluation, one
\* question graded through the adapter, to onComplete
C28_Witness ==
    /\ submit = "returned"
    /\ ~isEvaluating
    /\ Len(completed) = 1
    /\ Len(completed[1].results) = 2
    /\ calls # <<>>

\* C29: in every result isCorrect, finalAnswerCorrect and status = 'correct'
\* agree; status 'correct' comes with full marks and status 'incorrect' with
\* none.
C29_VerdictFieldsAgree ==
    \A k \in 1..Len(results) :
        /\ results[k].isCorrect = results[k].finalAnswerCorrect
        /\ results[k].isCorrect = (results[k].status = "correct")
        /\ results[k].status = "correct" => results[k].marksAwarded = results[k].maxMarks
        /\ results[k].status = "incorrect" => results[k].marksAwarded = 0

\* a quiz with a fully correct result and an open-ended result that got
\* method marks only
C29_Witness ==
    \E i, j \in 1..Len(results) :
        /\ results[i].status = "correct"
        /\ results[i].marksAwarded = 5
        /\ results[j].status = "partially_correct"
        /\ IsSome(results[j].workingSteps)

\* C30: in every result the status is 'partially_correct' exactly when
\* 0 < marksAwarded < maxMarks.
C30_PartialIffBetween ==
    \A k \in 1..Len(results) :
        results[k].status = "partially_correct"
            <=> (0 < results[k].marksAwarded /\ results[k].marksAwarded < results[k].maxMarks)

====
